---------------------------- MODULE Spec2Model ----------------------------
(***************************************************************************)
(* A model of the CollegeMate front end: the App shell (session, router),  *)
(* the login page and the student, teacher and admin dashboards.           *)
(*                                                                         *)
(*   src/unnamed/part_000 lines 1-88      App.js                           *)
(*   src/unnamed/part_000 lines 89-471    pages/TeacherDashboard.jsx       *)
(*   src/unnamed/part_001                 pages/AdminDashboard.jsx         *)
(*   src/frontend/src/pages/LoginPage.jsx                                  *)
(*   src/frontend/src/pages/StudentDashboard.jsx                           *)
(*                                                                         *)
(* The REST backend is not part of the sources; what the model needs of it *)
(* (the Backend* operators) follows the specification's data model.        *)
(***************************************************************************)
EXTENDS Integers, Sequences, FiniteSets, TLC

VARIABLES
    \* ---- App.js
    user,          \* useState(null): the in-memory identity, or NoUser
    storage,       \* sessionStorage item "user": the serialized record, or NoItem
    location,      \* the router's current path
    mountPending,  \* the App's mount effect has not run yet since the page load
    loads,         \* page loads so far (bounded by MaxLoads)
    session,       \* history: the identity last logged in and not logged out
    \* ---- LoginPage.jsx
    loginLoading,  \* useState(false)
    loginReq,      \* a POST /auth/login is in flight
    loginCount,    \* submissions so far (bounded by MaxLogins)
    loginLast,     \* what the last settled submission did
    \* ---- toasts (sonner), shared by every page
    toastCount,    \* number of toasts shown so far
    lastToast,     \* the last toast shown
    failed,        \* history: how many requests failed so far, and the last one
    \* ---- the backend and the dashboard on screen
    db,            \* the backend's collections
    local,         \* the dashboard's collections (its useState values)
    loading,       \* useState(true)
    fetches,       \* the joins of fetchData in flight, oldest first
    mutations,     \* the mutation requests in flight, oldest first
    actions,       \* the user's actions so far (bounded by MaxActions)
    dialogs,       \* the dialogs whose show...Dialog flag is true
    newComplaint,  \* StudentDashboard: the complaint form
    gradeForm,     \* TeacherDashboard: the two fields of the grade dialog
    editingGrade,  \* TeacherDashboard: the grade being edited, or NoGrade
    eventForm,     \* AdminDashboard: the forms of its four dialogs
    noticeForm,
    userForm,
    waiverForm,
    \* ---- the grade calculator applied on its own
    calcIn,        \* the total handed to calculateGrade
    calcOut,       \* the letter it returned, or None
    \* ---- the student's attendance average computed on its own
    avgIn,         \* the attendance array of a render
    avgOut         \* the avgAttendance that render computed, once it has

appVars   == <<user, storage, location, mountPending, loads, session>>
loginVars == <<loginLoading, loginReq, loginCount, loginLast>>
toastVars == <<toastCount, lastToast, failed>>
calcVars  == <<calcIn, calcOut, avgIn, avgOut>>
formVars  == <<newComplaint, gradeForm, editingGrade, eventForm, noticeForm, userForm,
              waiverForm>>
dashVars  == <<db, local, loading, fetches, mutations, actions, dialogs, formVars>>

None   == "none"
\* sessionStorage.getItem of an absent key (null)
NoItem == <<>>
\* the null identity
NoUser == [id |-> "", name |-> "", role |-> "", profile_pic |-> ""]

(***************************************************************************)
(* Bounds of the model.                                                    *)
(***************************************************************************)
MaxLogins   == 2    \* login submissions in one run
MaxLoads    == 2    \* page loads (reloads, typed addresses) in one run
MaxActions  == 2    \* user actions on a dashboard in one run
MaxTotal    == 52   \* calculateGrade is applied to every total in 0..MaxTotal
MaxFieldLen == 2    \* characters typed into a field of the grade form
MaxRecords  == 3    \* attendance records handed to avgAttendance

(***************************************************************************)
(* JavaScript numbers, as far as the code uses them: NaN or a rational     *)
(* num/den.  Integers have den = 1.                                        *)
(***************************************************************************)
NaN      == [nan |-> TRUE,  num |-> 0, den |-> 1]
Num(n)   == [nan |-> FALSE, num |-> n, den |-> 1]
Rat(n,d) == [nan |-> FALSE, num |-> n, den |-> d]

\* x < k, x > k and x >= k for an integer k; every comparison with NaN is false
NumLt(x, k) == ~x.nan /\ x.num < k * x.den
NumGt(x, k) == ~x.nan /\ x.num > k * x.den
NumGe(x, k) == ~x.nan /\ x.num >= k * x.den

\* x + y on integers-or-NaN (the code adds two parseInt results)
NumAdd(x, y) == IF x.nan \/ y.nan THEN NaN ELSE Num(x.num + y.num)

(***************************************************************************)
(* TeacherDashboard.calculateGrade                                         *)
(***************************************************************************)
Letters == {"A+", "A", "B+", "B", "C", "F"}

calculateGrade_StrictTop(total) ==
    IF NumGt(total, 45) THEN "A+"
    ELSE IF NumGe(total, 40) THEN "A"
    ELSE IF NumGe(total, 35) THEN "B+"
    ELSE IF NumGe(total, 30) THEN "B"
    ELSE IF NumGe(total, 25) THEN "C"
    ELSE "F"

calculateGrade(total) ==
    IF NumGe(total, 45) THEN "A+"
    ELSE IF NumGe(total, 40) THEN "A"
    ELSE IF NumGe(total, 35) THEN "B+"
    ELSE IF NumGe(total, 30) THEN "B"
    ELSE IF NumGe(total, 25) THEN "C"
    ELSE "F"

Apply_calculateGrade ==
    /\ calcOut = None
    /\ calcOut' = calculateGrade(Num(calcIn))
    /\ UNCHANGED <<calcIn, avgIn, avgOut, appVars, loginVars, toastVars, dashVars>>

(***************************************************************************)
(* Strings typed into a form are sequences of characters, so that          *)
(* Number(s) and parseInt(s) are computed from the characters.             *)
(***************************************************************************)
Digits == {"0", "1", "4"}
Chars  == Digits \cup {"-", "."}

DigitVal(c) ==
    CASE c = "0" -> 0 [] c = "1" -> 1 [] c = "4" -> 4

AllDigits(s) == \A i \in 1..Len(s) : s[i] \in Digits

RECURSIVE DigitsValue(_)
DigitsValue(s) ==
    IF s = <<>> THEN 0
    ELSE 10 * DigitsValue(SubSeq(s, 1, Len(s) - 1)) + DigitVal(s[Len(s)])

RECURSIVE Pow10(_)
Pow10(n) == IF n = 0 THEN 1 ELSE 10 * Pow10(n - 1)

\* the longest prefix of s made of digits
RECURSIVE DigitPrefix(_)
DigitPrefix(s) ==
    IF s = <<>> \/ s[1] \notin Digits THEN <<>>
    ELSE <<s[1]>> \o DigitPrefix(Tail(s))

\* position of the first "." of s, or 0
DotAt(s) ==
    IF \E i \in 1..Len(s) : s[i] = "."
    THEN CHOOSE i \in 1..Len(s) : s[i] = "." /\ \A j \in 1..(i-1) : s[j] # "."
    ELSE 0

Unsigned(s) == IF s # <<>> /\ s[1] = "-" THEN Tail(s) ELSE s

\* HTML's "valid floating-point number" over Chars (no exponent part):
\* an optional "-", then digits, or digits "." digits, or "." digits
IsValidFloat(s) ==
    LET u == Unsigned(s)
        d == DotAt(u)
    IN  IF d = 0 THEN u # <<>> /\ AllDigits(u)
        ELSE /\ AllDigits(SubSeq(u, 1, d - 1))
             /\ d < Len(u)
             /\ AllDigits(SubSeq(u, d + 1, Len(u)))

\* Number(s) for the value of an <input type="number">: "" is 0
StringToNumber(s) ==
    IF s = <<>> THEN Num(0)
    ELSE IF ~IsValidFloat(s) THEN NaN
    ELSE LET u    == Unsigned(s)
             d    == DotAt(u)
             ip   == IF d = 0 THEN u ELSE SubSeq(u, 1, d - 1)
             fp   == IF d = 0 THEN <<>> ELSE SubSeq(u, d + 1, Len(u))
             mag  == DigitsValue(ip) * Pow10(Len(fp)) + DigitsValue(fp)
             sign == IF s[1] = "-" THEN -1 ELSE 1
         IN  Rat(sign * mag, Pow10(Len(fp)))

\* parseInt(s): an optional sign and the leading digits; NaN when there are none
StringParseInt(s) ==
    LET u  == Unsigned(s)
        ds == DigitPrefix(u)
    IN  IF ds = <<>> THEN NaN
        ELSE Num((IF s[1] = "-" THEN -1 ELSE 1) * DigitsValue(ds))

(***************************************************************************)
(* A grade-form field holds a number (handleEditGrade copies it from the   *)
(* grade record) or the string of the number input (onChange).             *)
(***************************************************************************)
FieldNum(n) == [str |-> FALSE, s |-> <<>>, n |-> n]
FieldStr(s) == [str |-> TRUE,  s |-> s,    n |-> 0]

\* the operand conversion of field < k and field > k
FieldToNumber(f) == IF f.str THEN StringToNumber(f.s) ELSE Num(f.n)
\* parseInt(field)
parseInt(f) == IF f.str THEN StringParseInt(f.s) ELSE Num(f.n)

(***************************************************************************)
(* StudentDashboard.avgAttendance: the mean of the percentage fields as a  *)
(* string with two decimals, or the number 0.  Percentages are whole       *)
(* numbers, so the mean is the rational sum/length.                        *)
(***************************************************************************)
Percentages == {0, 1, 60, 80, 100}

DigitChar(d) == <<"0", "1", "2", "3", "4", "5", "6", "7", "8", "9">>[d + 1]

\* the decimal digits of a natural number
RECURSIVE NumberToString(_)
NumberToString(n) ==
    IF n < 10 THEN <<DigitChar(n)>>
    ELSE Append(NumberToString(n \div 10), DigitChar(n % 10))

\* (num/den).toFixed(2) for num >= 0: the nearest multiple of 1/100, the larger
\* one of two equally near, written with two decimals
toFixed_Truncates(num, den) ==
    LET n == (100 * num) \div den
    IN  NumberToString(n \div 100)
          \o <<".", DigitChar((n % 100) \div 10), DigitChar(n % 10)>>

toFixed(num, den) ==
    LET n == (200 * num + den) \div (2 * den)
    IN  NumberToString(n \div 100)
          \o <<".", DigitChar((n % 100) \div 10), DigitChar(n % 10)>>

\* attendance.reduce((sum, a) => sum + a.percentage, 0)
RECURSIVE SumPercentage(_)
SumPercentage(attendance) ==
    IF attendance = <<>> THEN 0
    ELSE SumPercentage(SubSeq(attendance, 1, Len(attendance) - 1))
           + attendance[Len(attendance)].percentage

avgAttendance(attendance) ==
    IF Len(attendance) > 0
    THEN FieldStr(toFixed(SumPercentage(attendance), Len(attendance)))
    ELSE FieldNum(0)

Apply_avgAttendance ==
    /\ avgOut = <<>>
    /\ avgOut' = <<avgAttendance(avgIn)>>
    /\ UNCHANGED <<avgIn, calcIn, calcOut, appVars, loginVars, toastVars, dashVars>>

(***************************************************************************)
(* The session identity and its serialized form.                           *)
(***************************************************************************)
Roles == {"student", "teacher", "admin"}

Identity(id, role) ==
    [id |-> id, name |-> "name-" \o id, role |-> role, profile_pic |-> "pic-" \o id]

Identities == {Identity("S1", "student"), Identity("T1", "teacher"),
               Identity("A1", "admin")}

\* JSON.stringify of an identity: the text, as the list of its members
Stringify_DropRole(u) ==
    << <<"id", u.id>>, <<"name", u.name>>, <<"profile_pic", u.profile_pic>> >>

Stringify(u) ==
    << <<"id", u.id>>, <<"name", u.name>>, <<"role", u.role>>,
       <<"profile_pic", u.profile_pic>> >>

\* JSON.parse: the object with the members of the text
Member(text, key) ==
    IF \E i \in 1..Len(text) : text[i][1] = key
    THEN text[CHOOSE i \in 1..Len(text) : text[i][1] = key][2]
    ELSE "undefined"

Parse(text) ==
    [id |-> Member(text, "id"), name |-> Member(text, "name"),
     role |-> Member(text, "role"), profile_pic |-> Member(text, "profile_pic")]

(***************************************************************************)
(* App.js: the routes.  An element is a page or a <Navigate to=...>.       *)
(***************************************************************************)
Paths == {"/", "/student", "/teacher", "/admin"}

Page(name)   == [el |-> name, to |-> ""]
Navigate(to) == [el |-> "Navigate", to |-> to]

DashboardOf(role) ==
    CASE role = "student" -> Page("StudentDashboard")
      [] role = "teacher" -> Page("TeacherDashboard")
      [] role = "admin"   -> Page("AdminDashboard")
      [] OTHER            -> Page("none")

Dashboards == {DashboardOf(r) : r \in Roles}

RootElement ==
    IF user # NoUser
    THEN IF user.role = "student" THEN Navigate("/student")
         ELSE IF user.role = "teacher" THEN Navigate("/teacher")
         ELSE Navigate("/admin")
    ELSE Page("LoginPage")

GuardedElement_NoRoleCheck(role) ==
    IF user # NoUser THEN DashboardOf(role) ELSE Navigate("/")

GuardedElement(role) ==
    IF user # NoUser /\ user.role = role THEN DashboardOf(role) ELSE Navigate("/")

RouteElement(path) ==
    CASE path = "/"        -> RootElement
      [] path = "/student" -> GuardedElement("student")
      [] path = "/teacher" -> GuardedElement("teacher")
      [] path = "/admin"   -> GuardedElement("admin")

\* the router follows the <Navigate> elements from a path: a page is
\* rendered after at most n redirects
RECURSIVE ReachesPage(_, _)
ReachesPage(path, n) ==
    IF RouteElement(path).el # "Navigate" THEN TRUE
    ELSE IF n = 0 THEN FALSE
    ELSE ReachesPage(RouteElement(path).to, n - 1)

\* <Routes>: the elements of the routes that match the location
Rendered == {RouteElement(p) : p \in {q \in Paths : q = location}}

IsRendered(name) == Page(name) \in Rendered

\* the location the router is being sent to, if any
RedirectTargets == {e.to : e \in {x \in Rendered : x.el = "Navigate"}}

\* a page is shown and no redirect is pending
Settled == RedirectTargets = {}

(***************************************************************************)
(* App.js: mount effect, handleLogin, handleLogout, and the browser.       *)
(***************************************************************************)
AppMountEffect ==
    /\ mountPending
    /\ mountPending' = FALSE
    /\ user' = IF storage # NoItem THEN Parse(storage) ELSE user
    /\ UNCHANGED <<storage, location, loads, session, loginVars, toastVars, calcVars, dashVars>>

\* <Navigate to replace />: its effect moves the router
Redirect ==
    /\ \E to \in RedirectTargets : location' = to
    /\ UNCHANGED <<user, storage, mountPending, loads, session, loginVars, toastVars,
                   calcVars, dashVars>>

\* the effect of App.handleLogin(userData) on the App's state
handleLogin(userData) ==
    /\ user' = userData
    /\ storage' = Stringify(userData)
    /\ session' = userData

handleLogout_KeepsItem ==
    /\ \E d \in Dashboards : d \in Rendered
    /\ ~mountPending
    /\ user' = NoUser
    /\ storage' = storage
    /\ session' = NoUser
    /\ UNCHANGED <<location, mountPending, loads, loginVars, toastVars, calcVars, dashVars>>

\* the logout button of a dashboard
handleLogout ==
    /\ \E d \in Dashboards : d \in Rendered
    /\ ~mountPending
    /\ user' = NoUser
    /\ storage' = NoItem
    /\ session' = NoUser
    /\ UNCHANGED <<location, mountPending, loads, loginVars, toastVars, calcVars, dashVars>>

\* the tab loads the application at a path (a reload, a typed address): the
\* components' state starts over, sessionStorage is kept
PageLoad(path) ==
    /\ loads < MaxLoads
    /\ loads' = loads + 1
    /\ location' = path
    /\ user' = NoUser
    /\ mountPending' = TRUE
    /\ loginLoading' = FALSE
    /\ loginReq' = FALSE
    /\ UNCHANGED <<storage, session, loginCount, loginLast, toastVars, calcVars, dashVars>>

(***************************************************************************)
(* LoginPage.jsx: handleLogin, up to the await and after it.               *)
(***************************************************************************)
Toast(kind, msg) == [kind |-> kind, msg |-> msg]

\* the request of operation op got a network error or a non-2xx answer
Failure(op) == [n |-> failed.n + 1, op |-> op]

\* the answers to POST /auth/login: {success, user?, message?} or a failure
LoginOutcomes ==
    {[kind |-> "success", user |-> u] : u \in Identities}
    \cup {[kind |-> k, user |-> NoUser] : k \in {"rejected", "malformed", "error"}}

LoginSubmit ==
    /\ IsRendered("LoginPage")
    /\ ~mountPending
    /\ ~loginLoading                 \* the submit button is disabled while loading
    /\ loginCount < MaxLogins
    /\ loginCount' = loginCount + 1
    /\ loginLoading' = TRUE
    /\ loginReq' = TRUE
    /\ UNCHANGED <<loginLast, appVars, toastVars, calcVars, dashVars>>

\* which answers make the page call onLogin
CallsOnLogin_Always(outcome) == outcome.kind # "malformed"

CallsOnLogin(outcome) == outcome.kind = "success"

\* the loading flag after the finally block of handleLogin
LoginFinally_OnlyInTry(outcome) == outcome.kind \in {"malformed", "error"}

LoginFinally(outcome) == FALSE

LoginSettle(outcome) ==
    /\ loginReq
    /\ loginReq' = FALSE
    /\ loginLoading' = LoginFinally(outcome)
    /\ toastCount' = toastCount + 1
    /\ loginLast' = [kind |-> outcome.kind, onLogin |-> CallsOnLogin(outcome)]
    /\ IF CallsOnLogin(outcome)
       THEN /\ lastToast' = Toast("success", "Welcome")
            /\ handleLogin(outcome.user)
       ELSE /\ lastToast' =
                 IF outcome.kind = "rejected"
                 THEN Toast("error", "Invalid credentials")
                 ELSE Toast("error", "Failed to login. Please try again.")
            /\ UNCHANGED <<user, storage, session>>
    /\ failed' = IF outcome.kind = "error" THEN Failure("login") ELSE failed
    /\ UNCHANGED <<location, mountPending, loads, loginCount, calcVars, dashVars>>

(***************************************************************************)
(* The backend's collections.  The server is not among the sources: its   *)
(* records and the effect of each endpoint follow the specification's     *)
(* data model (section 3) and interface list (section 6).                 *)
(***************************************************************************)
Complaint(id, type, by) ==
    [id |-> id, title |-> "x", description |-> "x", complaint_type |-> type,
     status |-> "pending", submitted_by |-> by, submitted_by_name |-> "name-" \o by,
     votes |-> 0, voted_by |-> <<>>, response |-> ""]

Event(id) ==
    [id |-> id, registration_required |-> TRUE, event_type |-> "academic",
     registered_users |-> <<>>]

Notice(id, audience) == [id |-> id, target_audience |-> audience]

Grade(id, student, subject, a, b) ==
    [id |-> id, student_id |-> student, subject_code |-> subject,
     part_a_marks |-> a, part_b_marks |-> b, total_marks |-> a + b,
     grade |-> calculateGrade(Num(a + b))]

Attendance(id, student, subject, pct) ==
    [id |-> id, student_id |-> student, subject_code |-> subject, percentage |-> pct]

Schedule(id, teacher, subject) ==
    [id |-> id, teacher_id |-> teacher, subject_code |-> subject]

UserRec(id, role) == [id |-> id, role |-> role]

DemoDB ==
    [events     |-> {Event("E1")},
     complaints |-> {Complaint("C1", "public", "S2"), Complaint("C2", "private", "S2")},
     notices    |-> {Notice("N1", {"all"}), Notice("N2", {"teacher"}),
                     Notice("N3", {"student", "teacher"})},
     users      |-> {UserRec("S1", "student"), UserRec("T1", "teacher")},
     grades     |-> {Grade("G1", "S1", "CS", 8, 30), Grade("G2", "S1", "MA", 4, 20)},
     attendance |-> {Attendance("AT1", "S1", "CS", 80)}]

Materials == {[id |-> "M1", subject_code |-> "CS"]}
Library   == {[id |-> "L1", available |-> 1]}
Schedules == {Schedule("SC1", "T1", "CS"), Schedule("SC2", "T2", "MA")}

\* GET url, for the session user uid
BackendGet(d, url, uid) ==
    CASE url = "grades/:id"            -> {g \in d.grades : g.student_id = uid}
      [] url = "grades"                -> d.grades
      [] url = "attendance/:id"        -> {a \in d.attendance : a.student_id = uid}
      [] url = "attendance"            -> d.attendance
      [] url = "materials"             -> Materials
      [] url = "library"               -> Library
      [] url = "events"                -> d.events
      [] url = "complaints"            -> d.complaints
      [] url = "notices"               -> d.notices
      [] url = "schedules/teacher/:id" -> {x \in Schedules : x.teacher_id = uid}
      [] url = "users"                 -> d.users
      [] url = "students"              -> {u \in d.users : u.role = "student"}

Ids(coll) == {x.id : x \in coll}

\* Array.prototype.includes
Includes(arr, x) == \E k \in 1..Len(arr) : arr[k] = x

\* a request the backend answers with 2xx
BackendAccepts(d, req) ==
    CASE req.op = "register"        -> req.id \in Ids(d.events)
      [] req.op = "vote"            -> req.id \in Ids(d.complaints)
      [] req.op = "createComplaint" -> req.body.id \notin Ids(d.complaints)
      [] req.op = "reset"           -> TRUE
      [] req.op = "updateGrade"     ->
           /\ req.id \in Ids(d.grades)
           /\ ~req.body.part_a_marks.nan /\ ~req.body.part_b_marks.nan
      [] req.op = "resolve"         -> req.id \in Ids(d.complaints)
      [] req.op = "createEvent"     -> req.body.id \notin Ids(d.events)
      [] req.op = "createNotice"    -> req.body.id \notin Ids(d.notices)
      [] req.op = "createUser"      -> req.body.id \notin Ids(d.users)
      [] req.op = "deleteUser"      -> req.id \in Ids(d.users)
      [] req.op = "deleteNotice"    -> req.id \in Ids(d.notices)
      [] req.op = "waive"           ->
           \E a \in d.attendance : /\ a.student_id = req.body.student_id
                                   /\ a.subject_code = req.body.subject_code
      [] OTHER                      -> FALSE

\* POST /complaints/:id/vote on complaint c: one vote per user
VoteOn_Always(c, userId) ==
    [c EXCEPT !.votes = @ + 1, !.voted_by = Append(@, userId)]

VoteOn(c, userId) ==
    IF Includes(c.voted_by, userId)
    THEN c
    ELSE [c EXCEPT !.votes = @ + 1, !.voted_by = Append(@, userId)]

\* PUT /complaints/:id/resolve on complaint c
ResolveOn_Toggles(c, response) ==
    IF c.status = "resolved"
    THEN [c EXCEPT !.status = "pending", !.response = ""]
    ELSE [c EXCEPT !.status = "resolved", !.response = response]

ResolveOn(c, response) == [c EXCEPT !.status = "resolved", !.response = response]

\* the collections after the request
BackendApply(d, req) ==
    CASE req.op = "register" ->
           [d EXCEPT !.events =
               {IF e.id = req.id
                THEN [e EXCEPT !.registered_users =
                                  IF Includes(@, req.body.user_id)
                                  THEN @ ELSE Append(@, req.body.user_id)]
                ELSE e : e \in @}]
      [] req.op = "vote" ->
           [d EXCEPT !.complaints =
               {IF c.id = req.id THEN VoteOn(c, req.body.user_id) ELSE c : c \in @}]
      [] req.op = "createComplaint" ->
           [d EXCEPT !.complaints = @ \cup {req.body}]
      [] req.op = "reset" -> DemoDB
      [] req.op = "updateGrade" ->
           [d EXCEPT !.grades =
               {IF g.id = req.id
                THEN [g EXCEPT !.part_a_marks = req.body.part_a_marks.num,
                               !.part_b_marks = req.body.part_b_marks.num,
                               !.total_marks  = req.body.total_marks.num,
                               !.grade        = req.body.grade]
                ELSE g : g \in @}]
      [] req.op = "resolve" ->
           [d EXCEPT !.complaints =
               {IF c.id = req.id THEN ResolveOn(c, req.body.response) ELSE c : c \in @}]
      [] req.op = "createEvent"  -> [d EXCEPT !.events = @ \cup {Event(req.body.id)}]
      [] req.op = "createNotice" ->
           [d EXCEPT !.notices = @ \cup {Notice(req.body.id, req.body.target_audience)}]
      [] req.op = "createUser"   ->
           [d EXCEPT !.users = @ \cup {UserRec(req.body.id, req.body.role)}]
      [] req.op = "deleteUser"   -> [d EXCEPT !.users = {u \in @ : u.id # req.id}]
      [] req.op = "deleteNotice" -> [d EXCEPT !.notices = {n \in @ : n.id # req.id}]
      [] req.op = "waive" ->
           [d EXCEPT !.attendance =
               {IF a.student_id = req.body.student_id
                   /\ a.subject_code = req.body.subject_code
                THEN [a EXCEPT !.percentage = 100]
                ELSE a : a \in @}]
      [] OTHER -> d

(***************************************************************************)
(* The dashboards: what is common to the three.                           *)
(***************************************************************************)
\* the dashboard on screen, by the name of its component
Dash ==
    IF IsRendered("StudentDashboard") THEN "student"
    ELSE IF IsRendered("TeacherDashboard") THEN "teacher"
    ELSE IF IsRendered("AdminDashboard") THEN "admin"
    ELSE "none"

\* a dashboard component is mounted; after a logout the setters of the
\* component that is gone do nothing
Mounted == Dash # "none"

\* the component returns its tabs (not the spinner) and no dialog covers them
Ready(d) == Dash = d /\ ~loading
Usable(d) == Ready(d) /\ dialogs = {}

\* the axios.get calls of fetchData's Promise.all, in order
StudentRequests ==
    <<"grades/:id", "attendance/:id", "materials", "library", "events",
      "complaints", "notices">>
TeacherRequests == <<"grades", "schedules/teacher/:id", "complaints">>
AdminRequests ==
    <<"users", "students", "events", "complaints", "notices", "attendance">>

RequestsOf(d) ==
    CASE d = "student" -> StudentRequests
      [] d = "teacher" -> TeacherRequests
      [] d = "admin"   -> AdminRequests

\* the collections of a dashboard, as its useState calls leave them
StudentEmpty ==
    [grades |-> {}, attendance |-> {}, materials |-> {}, library |-> {},
     events |-> {}, complaints |-> {}, notices |-> {}]
TeacherEmpty == [grades |-> {}, schedules |-> {}, complaints |-> {}]
AdminEmpty ==
    [users |-> {}, students |-> {}, events |-> {}, complaints |-> {},
     notices |-> {}, attendance |-> {}]

EmptyOf(d) ==
    CASE d = "student" -> StudentEmpty
      [] d = "teacher" -> TeacherEmpty
      [] d = "admin"   -> AdminEmpty

\* the setter calls after the await, on the responses' data
StudentSet_AllNotices(resp) ==
    [grades |-> resp[1], attendance |-> resp[2], materials |-> resp[3],
     library |-> resp[4], events |-> resp[5], complaints |-> resp[6],
     notices |-> resp[7]]

StudentSet(resp) ==
    [grades |-> resp[1], attendance |-> resp[2], materials |-> resp[3],
     library |-> resp[4], events |-> resp[5], complaints |-> resp[6],
     notices |-> {n \in resp[7] : "student" \in n.target_audience
                                     \/ "all" \in n.target_audience}]
TeacherSet(resp) ==
    [grades |-> resp[1], schedules |-> resp[2],
     complaints |-> {c \in resp[3] : c.status = "pending"}]
AdminSet(resp) ==
    [users |-> resp[1], students |-> resp[2], events |-> resp[3],
     complaints |-> resp[4], notices |-> resp[5], attendance |-> resp[6]]

SetOf(d, resp) ==
    CASE d = "student" -> StudentSet(resp)
      [] d = "teacher" -> TeacherSet(resp)
      [] d = "admin"   -> AdminSet(resp)

\* fetchData up to the await: the join it sends
NewJoin_DropsLast(d) ==
    [reqs |-> SubSeq(RequestsOf(d), 1, Len(RequestsOf(d)) - 1), resp |-> <<>>]

NewJoin(d) == [reqs |-> RequestsOf(d), resp |-> <<>>]

\* the useState defaults of the forms
EmptyComplaintForm == [title |-> "", description |-> "", type |-> "public"]
EmptyGradeForm     == [part_a_marks |-> FieldNum(0), part_b_marks |-> FieldNum(0)]
NoGrade            == Grade("", "", "", 0, 0)
EmptyEventForm     == [title |-> "", date |-> ""]
EmptyNoticeForm    == [title |-> "", content |-> "", target_audience |-> {"all"}]
EmptyUserForm      ==
    [id |-> "", username |-> "", password |-> "", role |-> "student", name |-> "",
     email |-> ""]
EmptyWaiverForm    == [student_id |-> "", subject_code |-> "", reason |-> ""]

FormsEmpty ==
    /\ newComplaint = EmptyComplaintForm
    /\ gradeForm = EmptyGradeForm /\ editingGrade = NoGrade
    /\ eventForm = EmptyEventForm /\ noticeForm = EmptyNoticeForm
    /\ userForm = EmptyUserForm /\ waiverForm = EmptyWaiverForm

\* the dashboard mounts: its state is the useState defaults and its effect
\* calls fetchData
MountState(d) ==
    /\ local' = EmptyOf(d)
    /\ loading' = TRUE
    /\ fetches' = <<NewJoin(d)>>
    /\ mutations' = <<>>
    /\ dialogs' = {}
    /\ newComplaint' = EmptyComplaintForm
    /\ gradeForm' = EmptyGradeForm /\ editingGrade' = NoGrade
    /\ eventForm' = EmptyEventForm /\ noticeForm' = EmptyNoticeForm
    /\ userForm' = EmptyUserForm /\ waiverForm' = EmptyWaiverForm

RemoveAt(seq, i) == SubSeq(seq, 1, i - 1) \o SubSeq(seq, i + 1, Len(seq))

\* the tab reloads on a dashboard: requests in flight are dropped, the
\* dashboard mounts again
Remount ==
    /\ Dash # "none"
    /\ actions < MaxActions
    /\ actions' = actions + 1
    /\ MountState(Dash)
    /\ UNCHANGED <<db, appVars, loginVars, toastVars, calcVars>>

\* the finally block of fetchData: setLoading(false), after the try block
\* completed (ok) or after the catch block
Finally_OnlyInTry(ok) == IF Mounted /\ ok THEN FALSE ELSE loading

Finally(ok) == IF Mounted THEN FALSE ELSE loading

\* the next request of join i is answered; with the last answer the await
\* of Promise.all returns and the setters run
FetchAnswer(i) ==
    /\ i \in 1..Len(fetches)
    /\ LET j    == fetches[i]
           url  == j.reqs[Len(j.resp) + 1]
           resp == Append(j.resp, BackendGet(db, url, user.id))
       IN  IF Len(resp) < Len(j.reqs)
           THEN /\ fetches' = [fetches EXCEPT ![i].resp = resp]
                /\ UNCHANGED <<local, loading>>
           ELSE /\ fetches' = RemoveAt(fetches, i)
                /\ local' = IF Mounted THEN SetOf(Dash, resp) ELSE local
                /\ loading' = Finally(TRUE)
    /\ UNCHANGED <<db, mutations, actions, dialogs, formVars, appVars, loginVars,
                   toastVars, calcVars>>

\* what the catch block of fetchData does to the collections
CatchKeeps_PartialResults(j) ==
    IF Len(j.resp) > 0 THEN [local EXCEPT !.complaints = {}] ELSE local

CatchKeeps(j) == local

\* what the catch block of fetchData does to the session of the App
CatchSession_LogsOut ==
    /\ user' = NoUser /\ storage' = NoItem /\ session' = NoUser
    /\ UNCHANGED <<location, mountPending, loads>>

CatchSession == UNCHANGED appVars

\* the next request of join i fails: Promise.all rejects, the catch and the
\* finally blocks run, later answers of the join are ignored
FetchFail(i) ==
    /\ i \in 1..Len(fetches)
    /\ fetches' = RemoveAt(fetches, i)
    /\ local' = CatchKeeps(fetches[i])
    /\ toastCount' = toastCount + 1
    /\ lastToast' = Toast("error", "Failed to load data")
    /\ failed' = Failure("fetch")
    /\ loading' = Finally(FALSE)
    /\ CatchSession
    /\ UNCHANGED <<db, mutations, actions, dialogs, formVars, loginVars, calcVars>>

(***************************************************************************)
(* A mutation handler: up to its await it sends one request; the answer   *)
(* runs the rest of its try block, or its catch block.                    *)
(***************************************************************************)
\* by: the dashboard whose handler (and whose fetchData) the request belongs to
Request(op, id, body) == [op |-> op, id |-> id, body |-> body, by |-> Dash]

Send(req) ==
    /\ actions < MaxActions
    /\ actions' = actions + 1
    /\ mutations' = Append(mutations, req)

SuccessMessage(op) ==
    CASE op = "register"        -> "Registered for event successfully!"
      [] op = "vote"            -> "response.data.message"
      [] op = "createComplaint" -> "Complaint submitted successfully!"
      [] op = "reset"           -> "Demo data reset successfully!"
      [] op = "updateGrade"     -> "Grade updated successfully!"
      [] op = "resolve"         -> "Complaint resolved!"
      [] op = "createEvent"     -> "Event created successfully!"
      [] op = "createNotice"    -> "Notice posted successfully!"
      [] op = "createUser"      -> "User created successfully!"
      [] op = "deleteUser"      -> "User deleted successfully!"
      [] op = "deleteNotice"    -> "Notice deleted successfully!"
      [] op = "waive"           -> "Attendance waived successfully!"

FailureMessage(op) ==
    CASE op = "register"        -> "Failed to register for event"
      [] op = "vote"            -> "Failed to vote"
      [] op = "createComplaint" -> "Failed to submit complaint"
      [] op = "reset"           -> "Failed to reset data"
      [] op = "updateGrade"     -> "Failed to update grade"
      [] op = "resolve"         -> "Failed to resolve complaint"
      [] op = "createEvent"     -> "Failed to create event"
      [] op = "createNotice"    -> "Failed to post notice"
      [] op = "createUser"      -> "Failed to create user"
      [] op = "deleteUser"      -> "Failed to delete user"
      [] op = "deleteNotice"    -> "Failed to delete notice"
      [] op = "waive"           -> "Failed to waive attendance"

\* what the try block does to dialogs and forms after the await
DialogOf(op) ==
    CASE op = "createComplaint" -> {"complaint"}
      [] op = "updateGrade"     -> {"grade"}
      [] op = "createEvent"     -> {"event"}
      [] op = "createNotice"    -> {"notice"}
      [] op = "createUser"      -> {"user"}
      [] op = "waive"           -> {"waiver"}
      [] OTHER                  -> {}

AfterSuccess(op) ==
    /\ dialogs' = dialogs \ DialogOf(op)
    /\ newComplaint' = IF op = "createComplaint" THEN EmptyComplaintForm ELSE newComplaint
    /\ eventForm'  = IF op = "createEvent"  THEN EmptyEventForm  ELSE eventForm
    /\ noticeForm' = IF op = "createNotice" THEN EmptyNoticeForm ELSE noticeForm
    /\ userForm'   = IF op = "createUser"   THEN EmptyUserForm   ELSE userForm
    /\ waiverForm' = IF op = "waive"        THEN EmptyWaiverForm ELSE waiverForm
    /\ UNCHANGED <<gradeForm, editingGrade>>

\* the fetchData() call that ends every try block
Refetch_Skipped(d) == UNCHANGED <<fetches, loading>>

Refetch(d) ==
    /\ fetches' = Append(fetches, NewJoin(d))
    /\ loading' = TRUE

\* the toast of a handler's catch block
FailureReport_Success(op) == Toast("success", SuccessMessage(op))

FailureReport(op) == Toast("error", FailureMessage(op))

\* what the catch block of a handler does to dialogs, forms and fetches
AfterFailure_ClosesDialog(op) == AfterSuccess(op) /\ UNCHANGED <<fetches, loading>>

AfterFailure(op) == UNCHANGED <<fetches, loading, dialogs, formVars>>

MutationSettle(i, ok) ==
    /\ i \in 1..Len(mutations)
    /\ mutations' = RemoveAt(mutations, i)
    /\ toastCount' = toastCount + 1
    /\ LET req == mutations[i]
       IN  IF ok /\ BackendAccepts(db, req)
           THEN /\ db' = BackendApply(db, req)
                /\ lastToast' = Toast("success", SuccessMessage(req.op))
                /\ IF Mounted
                   THEN AfterSuccess(req.op) /\ Refetch(Dash)
                   ELSE /\ fetches' = Append(fetches, NewJoin(req.by))
                        /\ UNCHANGED <<loading, dialogs, formVars>>
                /\ UNCHANGED failed
           ELSE /\ lastToast' = FailureReport(req.op)
                /\ failed' = Failure(req.op)
                /\ AfterFailure(req.op)
                /\ UNCHANGED db
    /\ UNCHANGED <<local, actions, appVars, loginVars, calcVars>>

(***************************************************************************)
(* StudentDashboard.jsx                                                    *)
(***************************************************************************)
\* the register button of an event of the list
RegisterDisabled_Never(e) == FALSE

RegisterDisabled(e) == Includes(e.registered_users, user.id)

RegisterOffered(e) ==
    /\ e \in local.events
    /\ e.registration_required /\ e.event_type # "holiday"
    /\ ~RegisterDisabled(e)

handleRegisterEvent(eventId) ==
    /\ Usable("student")
    /\ \E e \in local.events : e.id = eventId /\ RegisterOffered(e)
    /\ Send(Request("register", eventId, [user_id |-> user.id]))
    /\ UNCHANGED <<db, local, loading, fetches, dialogs, formVars, appVars,
                   loginVars, toastVars, calcVars>>

\* the complaints the student's list shows
StudentVisible_All(c) == TRUE

StudentVisible(c) == c.complaint_type = "public" \/ c.submitted_by = user.id

\* the cards of the complaints tab; the spinner replaces the tabs while loading
DisplayedComplaints ==
    IF loading THEN {} ELSE {c \in local.complaints : StudentVisible(c)}

handleVoteComplaint(complaintId) ==
    /\ Usable("student")
    /\ \E c \in local.complaints :
          c.id = complaintId /\ StudentVisible(c) /\ c.complaint_type = "public"
    /\ Send(Request("vote", complaintId, [user_id |-> user.id]))
    /\ UNCHANGED <<db, local, loading, fetches, dialogs, formVars, appVars,
                   loginVars, toastVars, calcVars>>

\* the "Submit Complaint" button, and closing the dialog
OpenComplaintDialog ==
    /\ Usable("student")
    /\ dialogs' = {"complaint"}
    /\ UNCHANGED <<db, local, loading, fetches, mutations, actions, formVars,
                   appVars, loginVars, toastVars, calcVars>>

CloseDialog ==
    /\ Dash # "none" /\ ~loading /\ dialogs # {}
    /\ dialogs' = {}
    /\ UNCHANGED <<db, local, loading, fetches, mutations, actions, formVars,
                   appVars, loginVars, toastVars, calcVars>>

\* typing in the dialog: the onChange handlers, one or more of them
ComplaintForms ==
    [title : {"", "x"}, description : {"", "x"}, type : {"public", "private"}]

EditComplaint(form) ==
    /\ Ready("student") /\ "complaint" \in dialogs
    /\ form # newComplaint
    /\ actions < MaxActions
    /\ actions' = actions + 1
    /\ newComplaint' = form
    /\ UNCHANGED <<db, local, loading, fetches, mutations, dialogs, gradeForm,
                   editingGrade, eventForm, noticeForm, userForm, waiverForm,
                   appVars, loginVars, toastVars, calcVars>>

\* `C${Date.now()}`: the clock is the count of the user's actions
NewId(prefix) == prefix \o ToString(actions + 10)

\* the object handleSubmitComplaint posts
complaint_PresetVotes ==
    [id |-> NewId("C"), title |-> newComplaint.title,
     description |-> newComplaint.description,
     complaint_type |-> newComplaint.type, status |-> "pending",
     submitted_by |-> user.id, submitted_by_name |-> user.name,
     votes |-> 1, voted_by |-> <<user.id>>, response |-> ""]

complaint ==
    [id |-> NewId("C"),
     title |-> newComplaint.title,
     description |-> newComplaint.description,
     complaint_type |-> newComplaint.type,
     status |-> "pending",
     submitted_by |-> user.id,
     submitted_by_name |-> user.name,
     votes |-> 0,
     voted_by |-> <<>>,
     response |-> ""]

handleSubmitComplaint ==
    /\ Ready("student") /\ "complaint" \in dialogs
    /\ IF newComplaint.title = "" \/ newComplaint.description = ""
       THEN /\ actions < MaxActions
            /\ actions' = actions + 1
            /\ toastCount' = toastCount + 1
            /\ lastToast' = Toast("error", "Please fill all fields")
            /\ UNCHANGED failed
            /\ UNCHANGED mutations
       ELSE /\ Send(Request("createComplaint", "", complaint))
            /\ UNCHANGED toastVars
    /\ UNCHANGED <<db, local, loading, fetches, dialogs, formVars, appVars,
                   loginVars, calcVars>>

resetDemoData ==
    /\ Usable("student")
    /\ Send(Request("reset", "", [user_id |-> ""]))
    /\ UNCHANGED <<db, local, loading, fetches, dialogs, formVars, appVars,
                   loginVars, toastVars, calcVars>>

(***************************************************************************)
(* TeacherDashboard.jsx                                                    *)
(***************************************************************************)
mySchedules == {x \in local.schedules : x.teacher_id = user.id}
mySubjects  == {x.subject_code : x \in mySchedules}
myGrades_All == local.grades

myGrades    == {g \in local.grades : g.subject_code \in mySubjects}

\* the edit button of a grade of the list
handleEditGrade(grade) ==
    /\ Usable("teacher")
    /\ grade \in myGrades
    /\ editingGrade' = grade
    /\ gradeForm' = [part_a_marks |-> FieldNum(grade.part_a_marks),
                     part_b_marks |-> FieldNum(grade.part_b_marks)]
    /\ dialogs' = {"grade"}
    /\ UNCHANGED <<db, local, loading, fetches, mutations, actions, newComplaint,
                   eventForm, noticeForm, userForm, waiverForm, appVars, loginVars,
                   toastVars, calcVars>>

\* what an <input type="number"> can hold: "" or a valid floating-point number
NumberInputs(maxLen) ==
    {<<>>} \cup {s \in UNION {[1..n -> Chars] : n \in 1..maxLen} : IsValidFloat(s)}

\* the strings typed on a dashboard: empty, in range, out of range, a fraction
TypedMarks == {<<>>, <<"4">>, <<"1", "1">>, <<".", "4">>}

\* onChange of the part-a or part-b input
SetGradeField(field, s) ==
    /\ Ready("teacher") /\ "grade" \in dialogs
    /\ gradeForm[field] # FieldStr(s)
    /\ actions < MaxActions
    /\ actions' = actions + 1
    /\ gradeForm' = [gradeForm EXCEPT ![field] = FieldStr(s)]
    /\ UNCHANGED <<db, local, loading, fetches, mutations, dialogs, newComplaint,
                   editingGrade, eventForm, noticeForm, userForm, waiverForm,
                   appVars, loginVars, toastVars, calcVars>>

\* the two range checks at the top of handleUpdateGrade
PartARejected_UpperOnly(form) == NumGt(FieldToNumber(form.part_a_marks), 10)

PartARejected(form) ==
    \/ NumLt(FieldToNumber(form.part_a_marks), 0)
    \/ NumGt(FieldToNumber(form.part_a_marks), 10)

PartBRejected(form) ==
    \/ NumLt(FieldToNumber(form.part_b_marks), 0)
    \/ NumGt(FieldToNumber(form.part_b_marks), 40)

\* the body of the PUT: {...editingGrade, part_a_marks, part_b_marks, total_marks, grade}
updatedGrade(editing, form) ==
    LET a     == parseInt(form.part_a_marks)
        b     == parseInt(form.part_b_marks)
        total == NumAdd(a, b)
    IN  [id |-> editing.id, student_id |-> editing.student_id,
         subject_code |-> editing.subject_code,
         part_a_marks |-> a, part_b_marks |-> b, total_marks |-> total,
         grade |-> calculateGrade(total)]

\* the preview of the dialog, computed in every render of it:
\* calculateGrade(parseInt(part_a_marks || 0) + parseInt(part_b_marks || 0))
OrZero(f) == IF (f.str /\ f.s = <<>>) \/ (~f.str /\ f.n = 0) THEN FieldNum(0) ELSE f

GradePreview(form) ==
    calculateGrade(NumAdd(parseInt(OrZero(form.part_a_marks)),
                          parseInt(OrZero(form.part_b_marks))))

handleUpdateGrade ==
    /\ Ready("teacher") /\ "grade" \in dialogs
    /\ IF PartARejected(gradeForm)
       THEN /\ actions < MaxActions
            /\ actions' = actions + 1
            /\ toastCount' = toastCount + 1
            /\ lastToast' = Toast("error", "Part A marks must be between 0 and 10")
            /\ UNCHANGED failed
            /\ UNCHANGED mutations
       ELSE IF PartBRejected(gradeForm)
       THEN /\ actions < MaxActions
            /\ actions' = actions + 1
            /\ toastCount' = toastCount + 1
            /\ lastToast' = Toast("error", "Part B marks must be between 0 and 40")
            /\ UNCHANGED failed
            /\ UNCHANGED mutations
       ELSE /\ Send(Request("updateGrade", editingGrade.id,
                            updatedGrade(editingGrade, gradeForm)))
            /\ UNCHANGED toastVars
    /\ UNCHANGED <<db, local, loading, fetches, dialogs, formVars, appVars,
                   loginVars, calcVars>>

\* what prompt() returns: null or "" (falsy), or a text
PromptAnswers == {"", "x"}

\* the "Resolve Complaint" button of a complaint card: on every card of the
\* teacher's list, on the pending ones of the admin's
ResolveShown_Always(c) == TRUE

ResolveShown(c) == Dash = "teacher" \/ c.status = "pending"

Teacher_handleResolveComplaint(complaintId, response) ==
    /\ Usable("teacher")
    /\ \E c \in local.complaints : c.id = complaintId /\ ResolveShown(c)
    /\ IF response = ""
       THEN /\ actions < MaxActions
            /\ actions' = actions + 1
            /\ UNCHANGED mutations
       ELSE Send(Request("resolve", complaintId, [response |-> response]))
    /\ UNCHANGED <<db, local, loading, fetches, dialogs, formVars, appVars,
                   loginVars, toastVars, calcVars>>

(***************************************************************************)
(* AdminDashboard.jsx                                                      *)
(***************************************************************************)
AdminDialogs == {"event", "notice", "user", "waiver"}

\* the buttons that set showEventDialog, showNoticeDialog, showUserDialog,
\* showWaiverDialog
OpenAdminDialog(d) ==
    /\ Usable("admin")
    /\ dialogs' = {d}
    /\ UNCHANGED <<db, local, loading, fetches, mutations, actions, formVars,
                   appVars, loginVars, toastVars, calcVars>>

\* a form with every required field filled, or with exactly one of them empty
OneEmpty(full, fields) ==
    {full} \cup {[full EXCEPT ![f] = ""] : f \in fields}

EventForms  == OneEmpty([title |-> "x", date |-> "x"], {"title", "date"})
NoticeForms ==
    OneEmpty([title |-> "x", content |-> "x", target_audience |-> {"all"}],
             {"title", "content"})
UserForms ==
    OneEmpty([id |-> "S3", username |-> "x", password |-> "x", role |-> "student",
              name |-> "x", email |-> "x"],
             {"id", "username", "password", "name", "email"})
WaiverForms ==
    OneEmpty([student_id |-> "S1", subject_code |-> "CS", reason |-> "x"],
             {"student_id", "subject_code", "reason"})

EditForm(d) ==
    /\ Ready("admin") /\ d \in dialogs
    /\ actions < MaxActions
    /\ actions' = actions + 1
    /\ UNCHANGED <<db, local, loading, fetches, mutations, dialogs, newComplaint,
                   gradeForm, editingGrade, appVars, loginVars, toastVars, calcVars>>

EditEventForm(form) ==
    /\ EditForm("event") /\ form # eventForm
    /\ eventForm' = form
    /\ UNCHANGED <<noticeForm, userForm, waiverForm>>

EditNoticeForm(form) ==
    /\ EditForm("notice") /\ form # noticeForm
    /\ noticeForm' = form
    /\ UNCHANGED <<eventForm, userForm, waiverForm>>

EditUserForm(form) ==
    /\ EditForm("user") /\ form # userForm
    /\ userForm' = form
    /\ UNCHANGED <<eventForm, noticeForm, waiverForm>>

EditWaiverForm(form) ==
    /\ EditForm("waiver") /\ form # waiverForm
    /\ \/ form.student_id = ""
       \/ form.student_id \in Ids(local.students)   \* a select over the students
    /\ waiverForm' = form
    /\ UNCHANGED <<eventForm, noticeForm, userForm>>

\* a submit button of a dialog: the required-field check, then the request
Submit_NoCheck(d, invalid, message, req) ==
    /\ Ready("admin") /\ d \in dialogs
    /\ Send(req)
    /\ UNCHANGED <<db, local, loading, fetches, dialogs, formVars, appVars,
                   loginVars, toastVars, calcVars>>

Submit(d, invalid, message, req) ==
    /\ Ready("admin") /\ d \in dialogs
    /\ IF invalid
       THEN /\ actions < MaxActions
            /\ actions' = actions + 1
            /\ toastCount' = toastCount + 1
            /\ lastToast' = Toast("error", message)
            /\ UNCHANGED failed
            /\ UNCHANGED mutations
       ELSE /\ Send(req)
            /\ UNCHANGED toastVars
    /\ UNCHANGED <<db, local, loading, fetches, dialogs, formVars, appVars,
                   loginVars, calcVars>>

handleCreateEvent ==
    Submit("event", eventForm.title = "" \/ eventForm.date = "",
           "Please fill required fields",
           Request("createEvent", "",
                   [id |-> NewId("E"), title |-> eventForm.title,
                    date |-> eventForm.date, registered_users |-> <<>>]))

handleCreateNotice ==
    Submit("notice", noticeForm.title = "" \/ noticeForm.content = "",
           "Please fill required fields",
           Request("createNotice", "",
                   [id |-> NewId("N"), title |-> noticeForm.title,
                    content |-> noticeForm.content,
                    target_audience |-> noticeForm.target_audience,
                    posted_by |-> user.name]))

handleCreateUser ==
    Submit("user",
           \/ userForm.id = "" \/ userForm.username = "" \/ userForm.password = ""
           \/ userForm.name = "" \/ userForm.email = "",
           "Please fill all fields",
           Request("createUser", "",
                   [id |-> userForm.id, username |-> userForm.username,
                    password |-> userForm.password, role |-> userForm.role,
                    name |-> userForm.name, email |-> userForm.email,
                    profile_pic |-> "pic-" \o userForm.name]))

handleWaiveAttendance ==
    Submit("waiver",
           \/ waiverForm.student_id = "" \/ waiverForm.subject_code = ""
           \/ waiverForm.reason = "",
           "Please fill all fields",
           Request("waive", "", waiverForm))

\* the delete button of a user; confirm is the answer to window.confirm
handleDeleteUser(userId, confirm) ==
    /\ Usable("admin")
    /\ userId \in Ids(local.users)
    /\ IF ~confirm
       THEN /\ actions < MaxActions
            /\ actions' = actions + 1
            /\ UNCHANGED mutations
       ELSE Send(Request("deleteUser", userId, [user_id |-> userId]))
    /\ UNCHANGED <<db, local, loading, fetches, dialogs, formVars, appVars,
                   loginVars, toastVars, calcVars>>

handleDeleteNotice(noticeId) ==
    /\ Usable("admin")
    /\ noticeId \in Ids(local.notices)
    /\ Send(Request("deleteNotice", noticeId, [notice_id |-> noticeId]))
    /\ UNCHANGED <<db, local, loading, fetches, dialogs, formVars, appVars,
                   loginVars, toastVars, calcVars>>

\* the resolve button is rendered for the pending complaints of the list
Admin_handleResolveComplaint(complaintId, response) ==
    /\ Usable("admin")
    /\ \E c \in local.complaints : c.id = complaintId /\ ResolveShown(c)
    /\ IF response = ""
       THEN /\ actions < MaxActions
            /\ actions' = actions + 1
            /\ UNCHANGED mutations
       ELSE Send(Request("resolve", complaintId, [response |-> response]))
    /\ UNCHANGED <<db, local, loading, fetches, dialogs, formVars, appVars,
                   loginVars, toastVars, calcVars>>

Admin_resetDemoData ==
    /\ Usable("admin")
    /\ Send(Request("reset", "", [user_id |-> ""]))
    /\ UNCHANGED <<db, local, loading, fetches, dialogs, formVars, appVars,
                   loginVars, toastVars, calcVars>>

(***************************************************************************)
(* Specifications.                                                         *)
(***************************************************************************)
vars == <<appVars, loginVars, toastVars, calcVars, dashVars>>

AppIdle ==
    /\ user = NoUser /\ storage = NoItem /\ location = "/" /\ mountPending = FALSE
    /\ loads = 0 /\ session = NoUser
LoginIdle ==
    /\ loginLoading = FALSE /\ loginReq = FALSE /\ loginCount = 0
    /\ loginLast = [kind |-> "none", onLogin |-> FALSE]
ToastIdle ==
    /\ toastCount = 0 /\ lastToast = Toast("none", "")
    /\ failed = [n |-> 0, op |-> "none"]
CalcIdle  == calcIn = 0 /\ calcOut = None /\ avgIn = <<>> /\ avgOut = <<>>
DashIdle ==
    /\ db = DemoDB /\ local = StudentEmpty /\ loading = FALSE /\ fetches = <<>>
    /\ mutations = <<>> /\ actions = 0 /\ dialogs = {}
    /\ FormsEmpty

\* ---- the grade calculator on every total of 0..MaxTotal
InitCalc ==
    /\ calcIn \in 0..MaxTotal /\ calcOut = None
    /\ avgIn = <<>> /\ avgOut = <<>>
    /\ AppIdle /\ LoginIdle /\ ToastIdle /\ DashIdle

NextCalc == Apply_calculateGrade

SpecCalc == InitCalc /\ [][NextCalc]_vars

\* ---- the App shell and the login page: a fresh tab opened at any path
InitApp ==
    /\ user = NoUser /\ storage = NoItem /\ location \in Paths
    /\ mountPending = TRUE /\ loads = 0 /\ session = NoUser
    /\ LoginIdle /\ ToastIdle /\ CalcIdle /\ DashIdle

NextApp ==
    \/ AppMountEffect
    \/ Redirect
    \/ handleLogout
    \/ \E path \in Paths : PageLoad(path)
    \/ LoginSubmit
    \/ \E outcome \in LoginOutcomes : LoginSettle(outcome)

SpecApp == InitApp /\ [][NextApp]_vars

\* React runs a pending effect; the environment (the user, the network) may stop
FairSpecApp ==
    SpecApp /\ WF_vars(AppMountEffect) /\ WF_vars(Redirect)

\* ---- the App loaded in a tab whose sessionStorage already holds a record:
\* ---- the mount effect takes whatever JSON.parse returns, so the record may
\* ---- carry a role that is none of the three
StoredIdentities == Identities \cup {Identity("G1", "guest")}

InitStored ==
    /\ user = NoUser /\ location \in Paths
    /\ storage \in {NoItem} \cup {Stringify(u) : u \in StoredIdentities}
    /\ session = IF storage = NoItem THEN NoUser ELSE Parse(storage)
    /\ mountPending = TRUE /\ loads = 0
    /\ LoginIdle /\ ToastIdle /\ CalcIdle /\ DashIdle

SpecStored == InitStored /\ [][NextApp]_vars

\* ---- a dashboard, from the moment it mounts for a logged-in user
InitDash ==
    /\ user \in Identities
    /\ storage = Stringify(user) /\ session = user
    /\ location = "/" \o user.role /\ mountPending = FALSE /\ loads = 0
    /\ LoginIdle /\ ToastIdle /\ CalcIdle
    /\ db = DemoDB /\ actions = 0
    /\ local = EmptyOf(user.role) /\ loading = TRUE
    /\ fetches = <<NewJoin(user.role)>> /\ mutations = <<>> /\ dialogs = {}
    /\ FormsEmpty

NextDash ==
    \/ Remount
    \/ \E i \in 1..Len(fetches) : FetchAnswer(i)
    \/ \E i \in 1..Len(fetches) : FetchFail(i)
    \/ \E i \in 1..Len(mutations), ok \in BOOLEAN : MutationSettle(i, ok)
    \/ CloseDialog
    \/ Dash = "student" /\ \E e \in Ids(local.events) : handleRegisterEvent(e)
    \/ Dash = "student" /\ \E c \in Ids(local.complaints) : handleVoteComplaint(c)
    \/ OpenComplaintDialog
    \/ \E form \in ComplaintForms : EditComplaint(form)
    \/ handleSubmitComplaint
    \/ resetDemoData
    \/ Dash = "teacher" /\ \E g \in local.grades : handleEditGrade(g)
    \/ \E f \in {"part_a_marks", "part_b_marks"}, s \in TypedMarks : SetGradeField(f, s)
    \/ handleUpdateGrade
    \/ Dash = "teacher" /\ \E c \in Ids(local.complaints), r \in PromptAnswers :
          Teacher_handleResolveComplaint(c, r)
    \/ \E d \in AdminDialogs : OpenAdminDialog(d)
    \/ \E form \in EventForms : EditEventForm(form)
    \/ \E form \in NoticeForms : EditNoticeForm(form)
    \/ \E form \in UserForms : EditUserForm(form)
    \/ \E form \in WaiverForms : EditWaiverForm(form)
    \/ handleCreateEvent
    \/ handleCreateNotice
    \/ handleCreateUser
    \/ Dash = "admin" /\ \E u \in Ids(local.users), confirm \in BOOLEAN :
          handleDeleteUser(u, confirm)
    \/ Dash = "admin" /\ \E n \in Ids(local.notices) : handleDeleteNotice(n)
    \/ Dash = "admin" /\ \E c \in Ids(local.complaints), r \in PromptAnswers :
          Admin_handleResolveComplaint(c, r)
    \/ handleWaiveAttendance
    \/ Admin_resetDemoData

SpecDash == InitDash /\ [][NextDash]_vars

\* every request in flight is answered or fails; the user may stop acting
FairSpecDash ==
    SpecDash /\ WF_vars(\E i \in 1..Len(fetches) : FetchAnswer(i) \/ FetchFail(i))

\* ---- a dashboard and its Logout button: the requests in flight at the
\* ---- logout are answered after the component is gone
NextSession ==
    \/ NextDash
    \/ handleLogout
    \/ Redirect

SpecSession == InitDash /\ [][NextSession]_vars

\* what every request of a dashboard's join returns from the backend as it is
Truth ==
    SetOf(Dash, [i \in 1..Len(RequestsOf(Dash)) |->
                    BackendGet(db, RequestsOf(Dash)[i], user.id)])

\* ---- the grade dialog of the teacher's dashboard, open on a grade of the
\* ---- list, with any content of its two number inputs
GradeFields(orig) ==
    {FieldNum(orig)} \cup {FieldStr(s) : s \in NumberInputs(MaxFieldLen)}

InitGrade ==
    /\ user = Identity("T1", "teacher")
    /\ storage = Stringify(user) /\ session = user
    /\ location = "/teacher" /\ mountPending = FALSE /\ loads = 0
    /\ LoginIdle /\ ToastIdle /\ CalcIdle
    /\ db = DemoDB /\ actions = 0
    /\ local = Truth /\ loading = FALSE
    /\ fetches = <<>> /\ mutations = <<>> /\ dialogs = {"grade"}
    /\ newComplaint = EmptyComplaintForm
    /\ eventForm = EmptyEventForm /\ noticeForm = EmptyNoticeForm
    /\ userForm = EmptyUserForm /\ waiverForm = EmptyWaiverForm
    /\ editingGrade \in myGrades
    /\ gradeForm \in [part_a_marks : GradeFields(editingGrade.part_a_marks),
                      part_b_marks : GradeFields(editingGrade.part_b_marks)]

NextGrade ==
    \/ handleUpdateGrade
    \/ \E i \in 1..Len(mutations), ok \in BOOLEAN : MutationSettle(i, ok)
    \/ \E i \in 1..Len(fetches) : FetchAnswer(i)
    \/ \E i \in 1..Len(fetches) : FetchFail(i)

SpecGrade == InitGrade /\ [][NextGrade]_vars

(***************************************************************************)
(* Claims.                                                                 *)
(***************************************************************************)

\* C1: for every integer total in [0,50] calculateGrade returns exactly one
\* letter of {A+,A,B+,B,C,F}, the one of the band total lies in: [45,50] A+,
\* [40,44] A, [35,39] B+, [30,34] B, [25,29] C, [0,24] F; 45 gives A+, 44 gives
\* A and 24 gives F.
C1_GradeBands ==
    (calcOut # None /\ calcIn \in 0..50) =>
        /\ calcOut \in Letters
        /\ (calcOut = "A+") = (calcIn \in 45..50)
        /\ (calcOut = "A")  = (calcIn \in 40..44)
        /\ (calcOut = "B+") = (calcIn \in 35..39)
        /\ (calcOut = "B")  = (calcIn \in 30..34)
        /\ (calcOut = "C")  = (calcIn \in 25..29)
        /\ (calcOut = "F")  = (calcIn \in 0..24)
        /\ (calcIn = 45 => calcOut = "A+")
        /\ (calcIn = 44 => calcOut = "A")
        /\ (calcIn = 24 => calcOut = "F")

C1_Witness == calcIn = 45 /\ calcOut = "A+"

\* the number a field holds lies outside [0, hi]; an empty input holds none
Outside(f, hi) ==
    IF f.str
    THEN /\ f.s # <<>>
         /\ IsValidFloat(f.s)
         /\ LET v == StringToNumber(f.s)
            IN  v.num < 0 \/ v.num > hi * v.den
    ELSE f.n < 0 \/ f.n > hi

\* C2: in the teacher's grade form, handleUpdateGrade with a part-A value
\* outside [0,10] or a part-B value outside [0,40] reports an error and sends
\* no request (no PUT to grades), whatever the two fields hold.
C2_RejectsOutOfRange ==
    [][ ( /\ actions' # actions
          /\ \/ Outside(gradeForm.part_a_marks, 10)
             \/ Outside(gradeForm.part_b_marks, 40) )
          => /\ mutations' = mutations /\ fetches' = fetches /\ db' = db
             /\ toastCount' = toastCount + 1
             /\ lastToast'.kind = "error" ]_vars

C2_Witness ==
    /\ gradeForm.part_a_marks = FieldStr(<<"-", "1">>)
    /\ lastToast = Toast("error", "Part A marks must be between 0 and 10")
    /\ actions = 1 /\ mutations = <<>> /\ db = DemoDB

\* C3: at most one dashboard is rendered; the dashboard of role R is rendered
\* only when a session exists whose role is R; a dashboard route with no
\* session or with a session of another role renders a redirect to "/", and
\* "/" with no session renders the login page.
C3_RoleRouter ==
    /\ Cardinality(Rendered \cap Dashboards) <= 1
    /\ \A r \in Roles :
          DashboardOf(r) \in Rendered => (user # NoUser /\ user.role = r)
    /\ \A r \in Roles :
          (location = "/" \o r /\ (user = NoUser \/ user.role # r))
              => Rendered = {Navigate("/")}
    /\ (location = "/" /\ user = NoUser) => Rendered = {Page("LoginPage")}

C3_Witness ==
    /\ user # NoUser /\ user.role = "teacher"
    /\ location = "/student" /\ Rendered = {Navigate("/")}

\* C4: without a page load in between, after any sequence of handleLogin and
\* handleLogout calls the in-memory identity and the record stored under
\* "user" agree: after handleLogin(u) both hold u, after handleLogout both are
\* absent.
C4_SessionAgrees ==
    ~mountPending =>
        /\ (user = NoUser) = (storage = NoItem)
        /\ user # NoUser => (storage = Stringify(user) /\ Parse(storage) = user)
        /\ user = session

C4_Witness ==
    ~mountPending /\ loads = 0 /\ loginCount = 2 /\ user = NoUser
    /\ loginLast.onLogin

\* C5: the session survives a reload: once the mount effect has run the
\* in-memory identity is the identity that was logged in and not logged out
\* (serialize then parse gives the record back), and from a page load with a
\* stored identity the router eventually shows the dashboard of its role.
C5_SurvivesReload ==
    /\ [](~mountPending => user = session)
    /\ [](\A u \in Identities : Parse(Stringify(u)) = u)
    /\ \A u \in Identities :
          (mountPending /\ loads > 0 /\ session = u)
              ~> (user = u /\ Rendered = {DashboardOf(u.role)})

C5_Witness ==
    /\ loads > 0 /\ ~mountPending /\ loginLast.kind = "success"
    /\ user # NoUser /\ user = session /\ Rendered = {DashboardOf(user.role)}

\* C6: a login attempt that fails (an answer with success = false, or a failed
\* request) reports an error and leaves the session as it was: onLogin is not
\* called, and the in-memory identity and the stored record do not change.
C6_FailedLoginKeepsSession ==
    [][ (loginReq /\ ~loginReq' /\ ~mountPending' /\ loginLast'.kind # "success")
          => /\ user' = user /\ storage' = storage
             /\ ~loginLast'.onLogin
             /\ toastCount' = toastCount + 1
             /\ lastToast'.kind = "error" ]_vars

C6_Witness ==
    /\ loginLast.kind = "rejected" /\ ~loginLast.onLogin
    /\ lastToast = Toast("error", "Invalid credentials")
    /\ user = NoUser /\ storage = NoItem /\ ~loginLoading

\* join i leaves flight with its last request answered, and the setters
\* store its responses
StoresJoin(i) ==
    LET j == fetches[i]
    IN  /\ fetches' = RemoveAt(fetches, i)
        /\ j.reqs = RequestsOf(Dash)
        /\ Len(j.resp) = Len(j.reqs) - 1
        /\ local' = SetOf(Dash, Append(j.resp,
                                       BackendGet(db, j.reqs[Len(j.reqs)], user.id)))

\* C7: the fetch of a dashboard is an all-or-nothing join: a join leaves
\* flight either with every request answered, and then its responses replace
\* the collections and nothing is reported, or with a failed request, and then
\* no collection changes and exactly one error ("Failed to load data") is
\* reported; outside a mount, the collections change only in the first way.
C7_AllOrNothingJoin ==
    [][ /\ ( /\ actions' = actions
             /\ \E i \in 1..Len(fetches) : fetches' = RemoveAt(fetches, i) )
           => \/ /\ \E i \in 1..Len(fetches) : StoresJoin(i)
                 /\ toastCount' = toastCount
              \/ /\ local' = local
                 /\ toastCount' = toastCount + 1
                 /\ lastToast' = Toast("error", "Failed to load data")
        /\ (actions' = actions /\ toastCount' # toastCount) => local' = local
        /\ (actions' = actions /\ local' # local)
           => \E i \in 1..Len(fetches) : StoresJoin(i) ]_vars

\* a re-fetch failed after the backend changed: the collections are the ones
\* of the fetch before
C7_Witness ==
    /\ lastToast = Toast("error", "Failed to load data")
    /\ toastCount > 1 /\ fetches = <<>> /\ mutations = <<>>
    /\ local # EmptyOf(Dash) /\ local # Truth

\* the only fetch so far, the one of the mount, has failed
MountFailed ==
    /\ Dash # "none"
    /\ toastCount = 1 /\ lastToast = Toast("error", "Failed to load data")
    /\ fetches = <<>>

\* C8: after the fetch on mount fails the dashboard is in an error state in
\* which no mutation request can be triggered.
C8_ErrorStateBlocksMutations == MountFailed => mutations = <<>>

\* C9: every mutation request that succeeds is followed by a fetch of every
\* collection of the dashboard (the whole join is sent, the spinner shows), and
\* outside a mount a collection changes only by storing the responses of a
\* join.
C9_RefetchAfterSuccess ==
    [][ /\ ( /\ \E i \in 1..Len(mutations) : mutations' = RemoveAt(mutations, i)
             /\ actions' = actions
             /\ (db' # db \/ lastToast'.kind = "success") )
           => /\ fetches' = Append(fetches, [reqs |-> RequestsOf(Dash), resp |-> <<>>])
              /\ loading'
              /\ local' = local
        /\ (actions' = actions /\ local' # local)
           => /\ \E i \in 1..Len(fetches) : StoresJoin(i)
              /\ mutations' = mutations /\ db' = db ]_vars

C9_Witness ==
    /\ lastToast.kind = "success" /\ db # DemoDB
    /\ fetches = <<[reqs |-> RequestsOf(Dash), resp |-> <<>>]>>
    /\ loading /\ local # Truth

\* C10: once no request is in flight (and the last report is a success, so
\* the last re-fetch did not fail) every collection of the dashboard equals the
\* backend's, after the dashboard's own filter.
C10_ViewReflectsBackend ==
    ( /\ Dash # "none"
      /\ fetches = <<>> /\ mutations = <<>>
      /\ lastToast.kind = "success" )
        => local = Truth

\* C11: when a mutation request fails the dashboard's state is left as it
\* was: every collection, every form field and the open flag of every dialog
\* are unchanged and no fetch is sent, so the same submission can be retried.
C11_FailureKeepsState ==
    [][ ( /\ \E i \in 1..Len(mutations) : mutations' = RemoveAt(mutations, i)
          /\ actions' = actions
          /\ lastToast'.kind = "error" )
          => /\ local' = local
             /\ UNCHANGED formVars
             /\ dialogs' = dialogs
             /\ fetches' = fetches /\ loading' = loading
             /\ db' = db ]_vars

\* a filled complaint form whose submission failed: still filled, still open
C11_Witness ==
    /\ lastToast = Toast("error", "Failed to submit complaint")
    /\ "complaint" \in dialogs
    /\ newComplaint.title = "x" /\ newComplaint.description = "x"
    /\ mutations = <<>> /\ fetches = <<>> /\ ~loading


\* ---- every request of the front end: the login page once the App has
\* mounted, up to the navigation a login causes, or a dashboard from its mount
InitLogin == AppIdle /\ LoginIdle /\ ToastIdle /\ CalcIdle /\ DashIdle

InitReports == InitLogin \/ InitDash

NextReports ==
    \/ LoginSubmit
    \/ \E outcome \in LoginOutcomes : LoginSettle(outcome)
    \/ NextDash

SpecReports == InitReports /\ [][NextReports]_vars

\* C12: no failure of a request silently succeeds: whenever a request of the
\* login page or of a dashboard (a mutation or a fetch) gets a network error or
\* a non-2xx answer, exactly one toast is shown in that step, it is an error
\* toast, and it is not the success message of the action.
C12_FailureIsReported ==
    [][ failed' # failed
        => /\ toastCount' = toastCount + 1
           /\ lastToast'.kind = "error"
           /\ failed'.op = "login" => lastToast'.msg # "Welcome"
           /\ failed'.op \notin {"login", "fetch"}
                 => lastToast'.msg # SuccessMessage(failed'.op) ]_vars

\* the second of two failed requests was a vote, and it is reported as failed
C12_Witness ==
    /\ failed.op = "vote" /\ failed.n = 2
    /\ lastToast = Toast("error", "Failed to vote")


\* the dialogs with required fields, and whether one of them is empty
C13_Missing ==
    [complaint |-> newComplaint.title = "" \/ newComplaint.description = "",
     event     |-> eventForm.title = "" \/ eventForm.date = "",
     notice    |-> noticeForm.title = "" \/ noticeForm.content = "",
     user      |-> \E f \in {"id", "username", "password", "name", "email"} :
                      userForm[f] = "",
     waiver    |-> \E f \in {"student_id", "subject_code", "reason"} :
                      waiverForm[f] = ""]

\* C13: submitting the complaint, event, notice, user or waiver form with a
\* required field empty shows an error toast and sends nothing: no mutation
\* and no fetch is issued, and the form, the dialog and the collections are
\* left as they were.  (With the dialog open, the only user action that leaves
\* the forms alone is its submit button.)
C13_EmptyFieldIsRejected ==
    [][ \A d \in DOMAIN C13_Missing :
          ( /\ dialogs = {d} /\ C13_Missing[d]
            /\ actions' = actions + 1
            /\ UNCHANGED <<formVars, dialogs>> )
          => /\ mutations' = mutations /\ fetches' = fetches
             /\ toastCount' = toastCount + 1 /\ lastToast'.kind = "error"
             /\ local' = local /\ db' = db /\ loading' = loading ]_vars

\* the waiver form submitted without a reason: refused, nothing sent
C13_Witness ==
    /\ dialogs = {"waiver"}
    /\ waiverForm = [student_id |-> "S1", subject_code |-> "CS", reason |-> ""]
    /\ lastToast = Toast("error", "Please fill all fields") /\ toastCount = 1
    /\ mutations = <<>> /\ fetches = <<>> /\ actions > 0


\* C14: whenever the student dashboard renders its tabs, a complaint is
\* displayed exactly when it is in the fetched collection and is public or was
\* submitted by the session user; and in every state, loading or not, a
\* private complaint of another user is not displayed.
C14_ComplaintVisibility ==
    Dash = "student" =>
      /\ \A c \in db.complaints \cup local.complaints :
            ~loading =>
            c \in DisplayedComplaints
              <=> /\ c \in local.complaints
                  /\ c.complaint_type = "public" \/ c.submitted_by = session.id
      /\ \A c \in DisplayedComplaints :
            ~(c.complaint_type = "private" /\ c.submitted_by # session.id)

\* the list holds another user's private complaint and does not show it, and
\* shows the private complaint the student has just submitted
C14_Witness ==
    /\ Dash = "student"
    /\ \E c \in local.complaints \ DisplayedComplaints :
          c.complaint_type = "private" /\ c.submitted_by # session.id
    /\ \E c \in DisplayedComplaints :
          c.complaint_type = "private" /\ c.submitted_by = session.id


\* the notices addressed to students
C15_ForStudents(notices) ==
    {n \in notices : n.target_audience \cap {"student", "all"} # {}}

\* C15: every successful fetch of the student dashboard leaves in the notice
\* list exactly the notices of the answer whose target_audience contains
\* "student" or "all", and in no state does the list hold (or the dashboard
\* show) a notice addressed to neither.
C15_StudentNotices ==
    /\ [](Dash = "student" => local.notices = C15_ForStudents(local.notices))
    /\ [][ ( /\ Dash = "student"
             /\ actions' = actions /\ failed' = failed
             /\ \E i \in 1..Len(fetches) : fetches' = RemoveAt(fetches, i) )
           => local'.notices = C15_ForStudents(db.notices) ]_vars

\* after a fetch the list holds the notice for everyone and the one for
\* students and teachers, and not the teachers' notice the backend also has
C15_Witness ==
    /\ Dash = "student" /\ ~loading
    /\ {n.id : n \in local.notices} = {"N1", "N3"}
    /\ "N2" \in {n.id : n \in db.notices}


\* how many times x occurs in an array
C16_Count(arr, x) == Cardinality({k \in 1..Len(arr) : arr[k] = x})

\* C16: registering twice is idempotent and is reported by the button: in
\* every state, after any register actions of the user (a second click before
\* the first answer included), the user's id occurs at most once in the
\* registered set of every event, at the backend and in the local snapshot;
\* the register control of an event is disabled exactly when the snapshot's
\* registered set contains the user; and a register request is sent only for
\* an event whose snapshot does not contain the user.
C16_RegisterIdempotent ==
    /\ [](Dash = "student" =>
            /\ \A e \in db.events \cup local.events :
                  C16_Count(e.registered_users, session.id) <= 1
            /\ \A e \in local.events :
                  RegisterDisabled(e) <=> C16_Count(e.registered_users, session.id) > 0)
    /\ [][ Dash = "student" =>
             \A e \in local.events :
               ( /\ Len(mutations') = Len(mutations) + 1
                 /\ mutations'[Len(mutations')].op = "register"
                 /\ mutations'[Len(mutations')].id = e.id )
               => C16_Count(e.registered_users, session.id) = 0 ]_vars

\* register was clicked twice before the first answer and both requests
\* succeeded: the student is registered once, two re-fetches are on their way
C16_Witness ==
    /\ Dash = "student" /\ actions = 2 /\ toastCount = 2 /\ failed.n = 0
    /\ lastToast = Toast("success", "Registered for event successfully!")
    /\ Len(fetches) = 2 /\ mutations = <<>>
    /\ \A c \in db.complaints : c.votes = 0
    /\ \E e \in db.events : e.registered_users = <<session.id>>


\* the users in an array
C17_Voters(c) == {c.voted_by[k] : k \in 1..Len(c.voted_by)}

\* C17: votes are counted once per user.  In every state, after any vote
\* actions (a second click before the first answer included), no user id
\* occurs twice in the voted_by of a complaint and its vote count is the number
\* of distinct users who voted (every complaint starts with none); and an
\* answered vote of a user already in voted_by changes nothing, while the vote
\* of a new user adds 1 to votes and the user to voted_by.
C17_VoteOnce ==
    /\ [](Dash = "student" =>
            \A c \in db.complaints \cup local.complaints :
              /\ Cardinality(C17_Voters(c)) = Len(c.voted_by)
              /\ c.votes = Cardinality(C17_Voters(c)))
    /\ [][ Dash = "student" =>
             \A i \in 1..Len(mutations) :
               ( /\ mutations' = RemoveAt(mutations, i) /\ mutations[i].op = "vote"
                 /\ actions' = actions /\ failed' = failed )
               => \A c \in db.complaints :
                    c.id = mutations[i].id
                    => IF session.id \in C17_Voters(c)
                       THEN db' = db
                       ELSE \E c2 \in db'.complaints :
                              /\ c2.id = c.id /\ c2.votes = c.votes + 1
                              /\ C17_Voters(c2) = C17_Voters(c) \cup {session.id}
                              /\ db'.complaints \ {c2} = db.complaints \ {c} ]_vars

\* the vote button was clicked twice before the first answer and both requests
\* were answered: one vote is counted
C17_Witness ==
    /\ Dash = "student" /\ actions = 2 /\ toastCount = 2 /\ failed.n = 0
    /\ lastToast = Toast("success", SuccessMessage("vote"))
    /\ Len(fetches) = 2 /\ mutations = <<>>
    /\ \A e \in db.events : e.registered_users = <<>>
    /\ \E c \in db.complaints : c.votes = 1 /\ c.voted_by = <<session.id>>


\* a complaint once resolved with a response
C18_Resolved(c, response) ==
    [c EXCEPT !.status = "resolved", !.response = response]

\* C18: resolving is offered only for pending complaints.  On the teacher and
\* the admin dashboard the resolve control of a complaint of the list is shown
\* exactly when its status in the local snapshot is pending; a resolve request
\* is sent only with a non-empty response and for a complaint pending in the
\* snapshot; and when a resolve request of a complaint pending at the backend
\* succeeds, the complaint is resolved there with that response attached.
C18_ResolveOnlyPending ==
    /\ [](Dash \in {"teacher", "admin"} =>
            \A c \in local.complaints : ResolveShown(c) <=> c.status = "pending")
    /\ [][ (Dash = "teacher" \/ Dash = "admin") =>
             /\ ( /\ Len(mutations') = Len(mutations) + 1
                  /\ mutations'[Len(mutations')].op = "resolve" )
                => /\ mutations'[Len(mutations')].body.response # ""
                   /\ \E c \in local.complaints :
                         /\ c.id = mutations'[Len(mutations')].id
                         /\ c.status = "pending"
             /\ \A i \in 1..Len(mutations) :
                  ( /\ mutations' = RemoveAt(mutations, i)
                    /\ mutations[i].op = "resolve"
                    /\ actions' = actions /\ failed' = failed )
                  => \A c \in db.complaints :
                       (c.id = mutations[i].id /\ c.status = "pending")
                       => \E c2 \in db'.complaints :
                            c2 = C18_Resolved(c, mutations[i].body.response) ]_vars

\* the admin's list after a resolve and its re-fetch: the resolved complaint
\* carries the response and has no resolve control, a pending one has it
C18_Witness ==
    /\ Dash = "admin" /\ ~loading
    /\ \E c \in local.complaints :
          c.status = "resolved" /\ c.response = "x" /\ ~ResolveShown(c)
    /\ \E c \in local.complaints : c.status = "pending" /\ ResolveShown(c)


\* ---- avgAttendance on every attendance array of at most MaxRecords records
InitAvg ==
    /\ avgIn \in UNION {[1..n -> [percentage : Percentages]] : n \in 0..MaxRecords}
    /\ avgOut = <<>>
    /\ calcIn = 0 /\ calcOut = None
    /\ AppIdle /\ LoginIdle /\ ToastIdle /\ DashIdle

SpecAvg == InitAvg /\ [][Apply_avgAttendance]_vars

\* the percentages of the records, added up from the first
RECURSIVE C19_Total(_, _)
C19_Total(arr, k) == IF k = 0 THEN 0 ELSE C19_Total(arr, k - 1) + arr[k].percentage

\* the number of hundredths a text "d..d.dd" denotes
RECURSIVE C19_Hundredths(_)
C19_Hundredths(t) ==
    IF t = <<>> THEN 0
    ELSE LET front == SubSeq(t, 1, Len(t) - 1)
             last  == t[Len(t)]
         IN  IF last = "." THEN C19_Hundredths(front)
             ELSE 10 * C19_Hundredths(front)
                    + (CHOOSE d \in 0..9 : ToString(d) = last)

\* C19: the student's average attendance is the arithmetic mean of the
\* percentage fields of the attendance records rounded to two decimals (no
\* multiple of 0.01 is nearer to the mean), written with two decimals; it is 0
\* when there are no records; and for the percentages 80, 60, 100 it is 80.00.
C19_AverageAttendance ==
    avgOut # <<>> =>
      LET n     == Len(avgIn)
          total == C19_Total(avgIn, n)
          text  == avgOut[1].s
          h     == C19_Hundredths(text)
      IN  /\ n = 0 => avgOut[1] = FieldNum(0)
          /\ n > 0 =>
                /\ avgOut[1].str
                /\ Len(text) >= 4 /\ text[Len(text) - 2] = "."
                /\ \A k \in 1..Len(text) : k # Len(text) - 2 => text[k] # "."
                /\ 2 * (100 * total - h * n) <= n
                /\ 2 * (h * n - 100 * total) <= n
          /\ avgIn = <<[percentage |-> 80], [percentage |-> 60], [percentage |-> 100]>>
                => avgOut[1] = FieldStr(<<"8", "0", ".", "0", "0">>)

\* the average of 80, 60 and 100 has been computed
C19_Witness ==
    /\ avgIn = <<[percentage |-> 80], [percentage |-> 60], [percentage |-> 100]>>
    /\ avgOut = <<FieldStr(<<"8", "0", ".", "0", "0">>)>>


\* the subject codes of the schedule entries of a teacher
C20_Taught(schedules, teacher) ==
    {x.subject_code : x \in {y \in schedules : y.teacher_id = teacher}}

\* C20: on the teacher dashboard a grade of the fetched list is displayed, with
\* its edit button, exactly when its subject code is one of the subject codes
\* of the fetched schedule entries whose teacher_id is the session user's id;
\* the edit dialog opens only on such a grade; and every update request that
\* is sent targets such a grade, never one of a subject the session user does
\* not teach.
C20_OnlyOwnSubjects ==
    /\ [](Dash = "teacher" =>
            \A g \in local.grades :
              g \in myGrades
                <=> g.subject_code \in C20_Taught(local.schedules, session.id))
    /\ [][ Dash = "teacher" =>
             /\ (editingGrade' # editingGrade /\ "grade" \in dialogs')
                => /\ editingGrade' \in local.grades
                   /\ editingGrade'.subject_code
                        \in C20_Taught(local.schedules, session.id)
             /\ ( /\ Len(mutations') = Len(mutations) + 1
                  /\ mutations'[Len(mutations')].op = "updateGrade" )
                => \E g \in local.grades :
                     /\ g.id = mutations'[Len(mutations')].id
                     /\ g.subject_code \in C20_Taught(local.schedules, session.id) ]_vars

\* an update of the grade of the taught subject is in flight, while the
\* fetched list also holds a grade of a subject the teacher does not teach
C20_Witness ==
    /\ Dash = "teacher"
    /\ \E i \in 1..Len(mutations) :
          /\ mutations[i].op = "updateGrade"
          /\ \E g \in myGrades : g.id = mutations[i].id
    /\ local.grades \ myGrades # {}


\* C21: mutations are single-in-flight: in every state of a dashboard at most
\* one mutation request is in flight, so a second mutating action cannot start
\* before the previous mutation call has completed.
C21_SingleInFlight == Len(mutations) <= 1


\* an integer of [0, hi]
C22_IntegerIn(x, hi) == ~x.nan /\ x.den = 1 /\ x.num \in 0..hi

\* C22: every grade-update request, whatever the two fields of the grade form
\* hold, carries an integer part_a_marks in [0,10], an integer part_b_marks in
\* [0,40], total_marks = part_a_marks + part_b_marks, grade =
\* calculateGrade(total_marks), and the other fields of the edited record.
C22_GradePayload ==
    \A i \in 1..Len(mutations) :
      mutations[i].op = "updateGrade" =>
        LET body == mutations[i].body
        IN  /\ C22_IntegerIn(body.part_a_marks, 10)
            /\ C22_IntegerIn(body.part_b_marks, 40)
            /\ C22_IntegerIn(body.total_marks, 50)
            /\ body.total_marks.num = body.part_a_marks.num + body.part_b_marks.num
            /\ body.grade = calculateGrade(body.total_marks)
            /\ mutations[i].id = editingGrade.id
            /\ body.id = editingGrade.id
            /\ body.student_id = editingGrade.student_id
            /\ body.subject_code = editingGrade.subject_code

\* C23: inputs outside the range are rejected before the calculation: no grade
\* is computed from a part-A value outside [0,10] or a part-B value outside
\* [0,40], neither for a request (its marks are in range or are no number)
\* nor in a render of the grade dialog for the current content of the form.
C23_RangeBeforeCalculation ==
    /\ \A i \in 1..Len(mutations) :
          mutations[i].op = "updateGrade" =>
            /\ ~NumLt(mutations[i].body.part_a_marks, 0)
            /\ ~NumGt(mutations[i].body.part_a_marks, 10)
            /\ ~NumLt(mutations[i].body.part_b_marks, 0)
            /\ ~NumGt(mutations[i].body.part_b_marks, 40)
    /\ ( /\ Ready("teacher") /\ "grade" \in dialogs
         /\ \/ Outside(gradeForm.part_a_marks, 10)
            \/ Outside(gradeForm.part_b_marks, 40) )
       => GradePreview(gradeForm) \notin Letters


\* a complaint resolved at the backend is pending there after the step
C24_Reopened ==
    \E c \in db.complaints : \E c2 \in db'.complaints :
      c.status = "resolved" /\ c2.id = c.id /\ c2.status = "pending"

C25_Logout ==
    /\ user' = NoUser /\ storage' = NoItem
    /\ UNCHANGED <<dashVars, toastVars>>

\* C25: the session is changed only by login and logout: no step of a
\* dashboard (a fetch answered or failed, a mutation accepted or rejected, a
\* validation failure, a request settling after the logout) changes the
\* identity held by the App or the record in sessionStorage; the only step
\* of a mounted dashboard that changes them is the Logout button's.
C25_SessionOnlyByLogout ==
    [][ (user' # user \/ storage' # storage) => C25_Logout ]_vars

\* the dashboard sent a mutation, the user logged out and was sent to the
\* login page, and every request in flight settled after that, one of them
\* with a failure: the spinner flag of the component that is gone stays set
C25_Witness ==
    /\ user = NoUser /\ storage = NoItem /\ location = "/"
    /\ actions > 0 /\ failed.n > 0
    /\ fetches = <<>> /\ mutations = <<>> /\ loading

\* a step in which a complaint-creation request is sent
C26_Sent ==
    /\ Len(mutations') = Len(mutations) + 1
    /\ mutations'[Len(mutations')].op = "createComplaint"

\* C26: every complaint-creation request is sent by the student dashboard
\* and carries status pending, votes 0, an empty voted_by, and submitted_by
\* and submitted_by_name equal to the id and the name of the session user:
\* no complaint is sent for another user, with votes or already resolved.
C26_ComplaintPayload ==
    [][ C26_Sent
        => LET body == mutations'[Len(mutations')].body
           IN  /\ Dash = "student" /\ user \in Identities /\ user = session
               /\ body.status = "pending"
               /\ body.votes = 0
               /\ body.voted_by = <<>>
               /\ body.submitted_by = user.id
               /\ body.submitted_by_name = user.name ]_vars

\* a private complaint of the student is in flight
C26_Witness ==
    /\ Dash = "student"
    /\ \E i \in 1..Len(mutations) :
          /\ mutations[i].op = "createComplaint"
          /\ mutations[i].body.complaint_type = "private"
          /\ mutations[i].body.submitted_by = "S1"

\* a step in which the join of a fetchData call settles: its last request
\* is answered, or one of its requests fails
C27_JoinSettles ==
    /\ actions' = actions
    /\ \E i \in 1..Len(fetches) : fetches' = RemoveAt(fetches, i)

\* C27: every fetchData call leaves the loading state: the step in which
\* its join settles, with success or with a failure, sets loading to false;
\* a dashboard with no join in flight does not show the spinner; and, the
\* requests being answered, a dashboard that shows the spinner eventually
\* stops showing it.
C27_LeavesLoading ==
    /\ [][ C27_JoinSettles => ~loading' ]_vars
    /\ [](fetches = <<>> => ~loading)
    /\ (loading ~> ~loading)

\* the join of a re-fetch failed after a mutation succeeded, and the
\* spinner is gone
C27_Witness ==
    /\ ~loading /\ fetches = <<>> /\ mutations = <<>>
    /\ actions > 0 /\ failed = [n |-> 1, op |-> "fetch"]
    /\ lastToast = Toast("error", "Failed to load data")
    /\ db # DemoDB

\* C28: in every state of a dashboard, loading is true whenever a join of
\* fetchData is still in flight, also when the re-fetches of successive
\* mutations overlap: the spinner stays until every fetch has settled.
C28_LoadingWhileFetching == (Mounted /\ fetches # <<>>) => loading

\* C29: routing always settles: for every session value the App holds (none,
\* or an identity with whatever role the login answered or the stored record
\* carries), following the redirects from each of the four routes reaches a
\* page after finitely many redirects.  The routes being four and the
\* redirects a function of the route, a chain of more redirects than routes
\* repeats a route and never ends.
C29_RoutingSettles == \A path \in Paths : ReachesPage(path, Cardinality(Paths))

\* C30: for every login submission the loading flag of the login page is
\* true from the step that issues the request until the request settles, and
\* false after it on every outcome (success, rejected credentials, a
\* malformed answer, a request error); onLogin is called only by the step
\* in which a submission settles, once, and only when the answer reports
\* success.
C30_LoginLoading ==
    /\ [](loginLoading <=> loginReq)
    /\ [][ loginCount' # loginCount
           => ~loginLoading /\ loginLoading' /\ loginReq' ]_vars
    /\ [][ (loginReq /\ ~loginReq') => ~loginLoading' ]_vars
    /\ [](loginLast.onLogin <=> loginLast.kind = "success")
    /\ [][ (session' # session /\ session' # NoUser)
           => /\ loginReq /\ ~loginReq'
              /\ loginLast'.kind = "success" /\ loginLast'.onLogin
              /\ user' = session' /\ storage' = Stringify(session') ]_vars

\* a first submission failed with a request error, a second one succeeded:
\* the flag is down and the identity is held
C30_Witness ==
    /\ loginCount >= 2 /\ ~loginReq /\ ~loginLoading
    /\ failed.op = "login" /\ failed.n = 1
    /\ loginLast = [kind |-> "success", onLogin |-> TRUE]
    /\ user \in Identities /\ user = session

=============================================================================
